---- MODULE Spec2Model ----
(***************************************************************************)
(* Model of the FastAPI user / favorite-city service (src/app/main.py).    *)
(*                                                                         *)
(* State: the two tables of src/app/models.py, the id generator of the     *)
(* store, the wall clock, the token handed out by the last POST /token,    *)
(* the protected request that has passed its dependencies and whose body   *)
(* has not run yet, and the HTTP response sent by the last step.           *)
(*                                                                         *)
(* A protected request takes two steps, split at the await between the     *)
(* dependency (get_current_active_user) and the handler body, so that      *)
(* logins, registrations, the clock and writes to the disabled column      *)
(* interleave between them.                                                *)
(*                                                                         *)
(* app/utils.py is not part of the sources at hand: the password hash,     *)
(* the token issuer, the signing key and the bearer scheme are modelled    *)
(* from the specification. Tokens always carry a sub field, as every       *)
(* token the issuer signs does. Of a response, the text that the handlers  *)
(* append to a detail (str(e)) is left out.                                *)
(***************************************************************************)
EXTENDS Integers, FiniteSets, TLC

\* ------------------------------------------------------------- bounds
MaxIds    == 3      \* ids the store's uuid_generate_v4() hands out
MaxTime   == 2      \* last clock tick

\* ------------------------------------------------------------- domains
Usernames == {"alice", "bob"}
Passwords == {"pw1", "pw2"}
\* the registration forms clients submit
Forms     == {[username |-> "alice", email |-> "a@x.no", password |-> "pw1"],
              [username |-> "bob",   email |-> "b@x.no", password |-> "pw2"]}
Cities    == {"Bergen"}
\* A protected request between its dependencies and its handler body. Login,
\* registration, the clock and the database operator interleave with it.
Slots     == {"r1"}
Ids       == 1..MaxIds

\* utils.py (not in src/): the signing key, and the token lifetime in ticks.
SECRET_KEY == "server"
TTL        == 1

NoToken   == [sub |-> "", exp |-> 0, sig |-> "absent"]
Malformed == [sub |-> "", exp |-> 0, sig |-> "garbage"]
\* a well-formed token signed with another key, with a far expiry
Forged    == {[sub |-> u, exp |-> MaxTime + TTL, sig |-> "other"] : u \in {"alice"}}

NoUser == [id |-> 0, username |-> "", email |-> "", hashed_password |-> <<>>,
           disabled |-> "null"]
Idle   == [op |-> "idle"]
\* what a step that answers no request leaves on the wire
Silent == [route |-> "", status |-> 0, detail |-> "", challenge |-> FALSE,
           body |-> {}]
NoEntry == [token |-> NoToken, username |-> "", uid |-> 0, iat |-> 0,
            disabled |-> FALSE]

VARIABLES
    users,           \* the users table: a set of rows
    favored_cities,  \* the favored_cities table: a set of rows
    nextId,          \* next value of uuid_generate_v4(), the default of users.id
                     \* and of favored_cities.favored_id: never handed out twice
    now,             \* the clock
    held,            \* the token the last successful login returned, with the
                     \* account it was issued to and when (the client keeps one)
    inflight,        \* per slot, the protected request waiting for its handler body
    resp             \* the response sent by the last step, Silent if it sent none

vars == <<users, favored_cities, nextId, now, held, inflight, resp>>

\* ------------------------------------------------------------- helpers
\* Python truth value of the nullable Boolean column `disabled`.
Truthy(flag) == flag = "true"

\* utils.py (not in src/): one-way hash and its check.
get_password_hash(password) == <<"$2b$", password>>

verify_password(password, hashed) == hashed = <<"$2b$", password>>

\* utils.py (not in src/): the signed token {sub, exp}.
create_access_token(sub) == [sub |-> sub, exp |-> now + TTL, sig |-> SECRET_KEY]

\* an HTTP response: the kind of route that sent it, status, detail, the
\* WWW-Authenticate: Bearer header, body
Response(route, status, detail, challenge, body) ==
    [route |-> route, status |-> status, detail |-> detail, challenge |-> challenge,
     body |-> body]

\* select ... where username == :username; fetchone(); 404 when there is none.
get_user_by_username(username) ==
    LET found == {u \in users : u.username = username}
    IN  IF found = {}
        THEN [raised |-> TRUE, status |-> 404, detail |-> "User not found",
              challenge |-> FALSE, user |-> NoUser]
        ELSE [raised |-> FALSE, status |-> 200, detail |-> "",
              challenge |-> FALSE, user |-> CHOOSE u \in found : TRUE]

\* jwt.decode(token, SECRET_KEY, algorithms=[ALGORITHM]): InvalidTokenError for a
\* token that is not a signed token, for a signature made with another key and
\* for an expiry in the past; the payload otherwise.
\* Two faulty decoders first: one that ignores exp, one that accepts any key.
jwt_decode_noexp(token) ==
    IF token.sig # SECRET_KEY
    THEN [ok |-> FALSE, sub |-> ""]
    ELSE [ok |-> TRUE, sub |-> token.sub]

jwt_decode_nosig(token) ==
    IF token.sig \notin {SECRET_KEY, "other"} \/ token.exp < now
    THEN [ok |-> FALSE, sub |-> ""]
    ELSE [ok |-> TRUE, sub |-> token.sub]

jwt_decode(token) ==
    IF token.sig # SECRET_KEY \/ token.exp < now
    THEN [ok |-> FALSE, sub |-> ""]
    ELSE [ok |-> TRUE, sub |-> token.sub]

credentials_exception ==
    [raised |-> TRUE, status |-> 401, detail |-> "Could not validate credentials",
     challenge |-> TRUE, user |-> NoUser]

\* The `user is None` test of line 69 never fires: get_user_by_username has
\* raised its own 404 before returning.
get_current_user(token) ==
    LET payload == jwt_decode(token)
    IN  IF ~payload.ok
        THEN credentials_exception
        ELSE LET looked == get_user_by_username(payload.sub)
             IN  IF looked.raised THEN looked
                 ELSE IF looked.user = NoUser THEN credentials_exception
                 ELSE looked

\* A faulty get_current_active_user: it leaves out the disabled test.
get_current_active_user_nocheck(token) == get_current_user(token)

get_current_active_user(token) ==
    LET current == get_current_user(token)
    IN  IF current.raised THEN current
        ELSE IF Truthy(current.user.disabled)
        THEN [raised |-> TRUE, status |-> 400, detail |-> "Inactive user",
              challenge |-> FALSE, user |-> NoUser]
        ELSE current

\* utils.py (not in src/): OAuth2PasswordBearer refuses a request without an
\* Authorization: Bearer header before any dependency runs.
oauth2_scheme(token) ==
    IF token = NoToken
    THEN [raised |-> TRUE, status |-> 401, detail |-> "Not authenticated",
          challenge |-> TRUE, user |-> NoUser]
    ELSE get_current_active_user(token)

authenticate_user(username, password) ==
    LET looked == get_user_by_username(username)
    IN  IF looked.raised THEN looked
        ELSE IF ~verify_password(password, looked.user.hashed_password)
        THEN [raised |-> FALSE, status |-> 200, detail |-> "", challenge |-> FALSE,
              user |-> NoUser]
        ELSE looked

\* ------------------------------------------------------------- state
Issued == {held} \ {NoEntry}

ClientTokens == {i.token : i \in Issued} \cup Forged \cup {Malformed, NoToken}

ProtectedOps == {"read_own_cities", "add_favorite_city", "delete_favored_city",
                 "delete_user"}

Init ==
    /\ users = {}
    /\ favored_cities = {}
    /\ nextId = 1
    /\ now = 0
    /\ held = NoEntry
    /\ inflight = [s \in Slots |-> Idle]
    /\ resp = Silent

\* ------------------------------------------------------------- operations
\* POST /token
login_for_access_token(username, password) ==
    LET auth == authenticate_user(username, password)
    IN  /\ IF auth.raised
           THEN /\ resp' = Response("token", auth.status, auth.detail, auth.challenge,
                                    {})
                /\ UNCHANGED held
           ELSE IF auth.user = NoUser
           THEN /\ resp' = Response("token", 401, "Incorrect username or password",
                                    TRUE, {})
                /\ UNCHANGED held
           ELSE LET access_token == create_access_token(auth.user.username)
                    entry == [token |-> access_token, username |-> username,
                              uid |-> auth.user.id, iat |-> now,
                              disabled |-> Truthy(auth.user.disabled)]
                IN  /\ held' = entry
                    /\ resp' = Response("token", 200, "bearer", FALSE, {})
        /\ UNCHANGED <<users, favored_cities, nextId, now, inflight>>

\* POST /create_user/ : no dependency on the gate. The unique constraints on
\* username and email make the insert raise, the handler answers 400.
create_user(request) ==
    IF \E u \in users : u.username = request.username \/ u.email = request.email
    THEN /\ resp' = Response("create_user", 400, "User already exists", FALSE, {})
         /\ UNCHANGED <<users, favored_cities, nextId, now, held, inflight>>
    ELSE /\ nextId <= MaxIds
         /\ users' = users \cup {[id |-> nextId, username |-> request.username,
                                  email |-> request.email,
                                  hashed_password |->
                                      get_password_hash(request.password),
                                  disabled |-> "null"]}
         /\ nextId' = nextId + 1
         /\ resp' = Response("create_user", 200, "", FALSE, {})
         /\ UNCHANGED <<favored_cities, now, held, inflight>>

\* The dependencies of a protected route, Depends(get_current_active_user),
\* for a request arriving in slot s. Either a dependency raises and its
\* HTTPException is the response, whatever the route and its arguments ...
Reject(s, token) ==
    /\ inflight[s] = Idle
    /\ LET gate == oauth2_scheme(token)
       IN  /\ gate.raised
           /\ resp' = Response("protected", gate.status, gate.detail, gate.challenge, {})
    /\ UNCHANGED <<users, favored_cities, nextId, now, held, inflight>>

\* ... or the request reaches its handler body with current_user bound. The
\* parameters of the request (request.city, favored_id, id) are drawn when the
\* body reads them: what a client may send does not depend on the state, so
\* this gives the same behaviours as drawing them on arrival.
Admit(s, op, token) ==
    /\ inflight[s] = Idle
    /\ LET gate == oauth2_scheme(token)
       IN  /\ ~gate.raised
           /\ inflight' = [inflight EXCEPT ![s] =
                              [op |-> op, current_user |-> gate.user]]
    /\ resp' = Silent
    /\ UNCHANGED <<users, favored_cities, nextId, now, held>>

Finish(s, status, detail, body) ==
    /\ resp' = Response("protected", status, detail, FALSE, body)
    /\ inflight' = [inflight EXCEPT ![s] = Idle]

\* GET /users/me/cities/
read_own_cities(s) ==
    /\ inflight[s].op = "read_own_cities"
    /\ LET cities == {f \in favored_cities : inflight[s].current_user.id = f.id}
       IN  IF cities = {}
           THEN Finish(s, 404, "No cities found", {})
           ELSE Finish(s, 200, "", cities)
    /\ UNCHANGED <<users, favored_cities, nextId, now, held>>

\* POST /add_favorite_city/
add_favorite_city(s, city) ==
    /\ inflight[s].op = "add_favorite_city"
    /\ nextId <= MaxIds
    /\ favored_cities' = favored_cities \cup
           {[favored_id |-> nextId, id |-> inflight[s].current_user.id,
             city |-> city]}
    /\ nextId' = nextId + 1
    /\ Finish(s, 200, "", {})
    /\ UNCHANGED <<users, now, held>>

\* DELETE /delete_favored_city/ : the 404 raised inside the try block is an
\* Exception, so the handler's own except clause turns it into a 500.
delete_favored_city(s, favored_id) ==
    /\ inflight[s].op = "delete_favored_city"
    /\ LET matched == {f \in favored_cities : f.favored_id = favored_id}
       IN  IF matched = {}
           THEN /\ Finish(s, 500, "404: City not found", {})
                /\ UNCHANGED favored_cities
           ELSE /\ favored_cities' = favored_cities \ matched
                /\ Finish(s, 200, "", {})
    /\ UNCHANGED <<users, nextId, now, held>>

\* DELETE /users/delete_user/ : same shape; only the users table is touched.
delete_user(s, id) ==
    /\ inflight[s].op = "delete_user"
    /\ LET matched == {u \in users : u.id = id}
       IN  IF matched = {}
           THEN /\ Finish(s, 500, "404: User not found", {})
                /\ UNCHANGED users
           ELSE /\ users' = users \ matched
                /\ Finish(s, 200, "", {})
    /\ UNCHANGED <<favored_cities, nextId, now, held>>

\* The store's `disabled` column is written by the operator of the database;
\* no handler writes it.
DisableUser(id) ==
    /\ \E u \in users :
          /\ u.id = id
          /\ ~Truthy(u.disabled)
          /\ users' = (users \ {u}) \cup {[u EXCEPT !.disabled = "true"]}
    /\ resp' = Silent
    /\ UNCHANGED <<favored_cities, nextId, now, held, inflight>>

Tick ==
    /\ now < MaxTime
    /\ now' = now + 1
    /\ resp' = Silent
    /\ UNCHANGED <<users, favored_cities, nextId, held, inflight>>

Next ==
    \/ \E u \in Usernames, p \in Passwords : login_for_access_token(u, p)
    \/ \E f \in Forms : create_user(f)
    \/ \E s \in Slots, t \in ClientTokens : Reject(s, t)
    \/ \E s \in Slots, op \in ProtectedOps, t \in ClientTokens : Admit(s, op, t)
    \/ \E s \in Slots : read_own_cities(s)
    \/ \E s \in Slots, city \in Cities : add_favorite_city(s, city)
    \/ \E s \in Slots, favored_id \in Ids : delete_favored_city(s, favored_id)
    \/ \E s \in Slots, id \in Ids : delete_user(s, id)
    \/ \E id \in Ids : DisableUser(id)
    \/ Tick

Spec == Init /\ [][Next]_vars

\* ------------------------------------------------------------- properties
Exists(username) == \E u \in users : u.username = username

InvalidCredentials ==
    Response("protected", 401, "Could not validate credentials", TRUE, {})

IncorrectLogin == Response("token", 401, "Incorrect username or password", TRUE, {})

InactiveUser == Response("protected", 400, "Inactive user", FALSE, {})

\* the rows of the users table, whatever their disabled flag
Accounts(table) == {[u EXCEPT !.disabled = "null"] : u \in table}

TablesChanged ==
    \/ Accounts(users') # Accounts(users)
    \/ favored_cities' # favored_cities

\* the handler body of an admitted request runs
BodyStep(s) == inflight[s] # Idle /\ inflight'[s] = Idle

\* a request is admitted to its handler body
Admitted(s) == inflight[s] = Idle /\ inflight'[s] # Idle

\* the request admitted in slot s carried a token signed by the server and not
\* expired, whose subject is a row of the users table that is not disabled
ResolvedToActiveUser(s) ==
    \E op \in ProtectedOps, t \in ClientTokens :
        /\ Admit(s, op, t)
        /\ t.sig = SECRET_KEY
        /\ now <= t.exp
        /\ inflight'[s].current_user \in users
        /\ inflight'[s].current_user.username = t.sub
        /\ ~Truthy(inflight'[s].current_user.disabled)

\* C1: a login with a username that is not in the store is rejected exactly as a
\* wrong password is: 401 "Incorrect username or password".
C1_UnknownUsernameLikeWrongPassword ==
    [][\A u \in Usernames, p \in Passwords :
          (login_for_access_token(u, p) /\ ~Exists(u)) => resp' = IncorrectLogin]_vars

\* C2: a login with the correct password of a disabled user is refused and
\* issues no token.
C2_DisabledUserCannotLogin ==
    [][\A u \in Usernames, p \in Passwords :
          ( /\ login_for_access_token(u, p)
            /\ \E r \in users : /\ r.username = u
                                /\ Truthy(r.disabled)
                                /\ verify_password(p, r.hashed_password) )
          => (resp'.status # 200 /\ held' = held)]_vars

C4_UniformInvalidCredentials ==
    [][\A s \in Slots, t \in ClientTokens \ {NoToken} :
          ~(t.sig = SECRET_KEY /\ now <= t.exp) \/ ~Exists(t.sub)
          => /\ Reject(s, t) => resp' = InvalidCredentials
             /\ \A op \in ProtectedOps : ~Admit(s, op, t)]_vars

C6_TokenValidUntilExpiry ==
    held # NoEntry =>
        /\ now <= held.iat + TTL =>
               jwt_decode(held.token) = [ok |-> TRUE, sub |-> held.username]
        /\ now > held.iat + TTL =>
               /\ ~jwt_decode(held.token).ok
               /\ get_current_user(held.token) = credentials_exception

\* C6 witness: an issued token outlived its expiry and a request was refused.
C6_Witness ==
    /\ held # NoEntry
    /\ now > held.iat + TTL
    /\ held.token.sig = SECRET_KEY
    /\ resp = InvalidCredentials

\* C7: every row of favored_cities is owned by a row of users.
C7_NoOrphanFavorite ==
    \A f \in favored_cities : \E u \in users : u.id = f.id

\* C8: favorite-city rows are created, read and deleted only by their owner.
C8_OwnerScoped ==
    [][ /\ \A f \in favored_cities' \ favored_cities :
               \E s \in Slots : BodyStep(s) /\ f.id = inflight[s].current_user.id
        /\ \A f \in favored_cities \ favored_cities' :
               \E s \in Slots : BodyStep(s) /\ f.id = inflight[s].current_user.id
        /\ \A s \in Slots :
               read_own_cities(s) =>
                   \A f \in resp'.body : f.id = inflight[s].current_user.id ]_vars

\* C9: delete_favored_city and delete_user with an identifier that matches no row
\* answer 404 "City not found" / "User not found" and change no table.
C9_DeleteMissingIs404 ==
    [][\A s \in Slots, id \in Ids :
          /\ ( /\ delete_favored_city(s, id)
               /\ ~\E f \in favored_cities : f.favored_id = id )
             => /\ resp' = Response("protected", 404, "City not found", FALSE, {})
                /\ UNCHANGED <<users, favored_cities>>
          /\ ( /\ delete_user(s, id)
               /\ ~\E u \in users : u.id = id )
             => /\ resp' = Response("protected", 404, "User not found", FALSE, {})
                /\ UNCHANGED <<users, favored_cities>> ]_vars

\* C10: a request admitted with the token of a login is bound to the account
\* that logged in.
C10_TokenBoundToAccount ==
    [][\A s \in Slots, op \in ProtectedOps :
          (held # NoEntry /\ Admit(s, op, held.token))
          => inflight'[s].current_user.id = held.uid]_vars

====
